---- MODULE Spec2Model ----
(***************************************************************************)
(* A model of src/generators/ecommerce_data_generator.py: the generator    *)
(* EcommerceDataGenerator (generate_customers, generate_products,          *)
(* generate_orders) and its driver generate_all.                           *)
(*                                                                         *)
(* Money is kept in whole cents, margins and rates in percent.  Dates are  *)
(* days since 2023-01-01 (the date of line 229), timestamps are ticks,     *)
(* TicksPerDay of them to a day.  A draw from the seeded generators        *)
(* (random, Faker: lines 29-31) is a choice recorded on a tape, so that a  *)
(* second process started from the same seed can be made to repeat it; a   *)
(* draw from numpy's global generator (DataFrame.sample, lines 222 and     *)
(* 244) and a reading of the clock are not seeded by the module and are    *)
(* free choices.  Text fields made by Faker (names, addresses, sku, ...)   *)
(* and the order's status, payment_method and updated_at carry no logic    *)
(* and are left out of the records.                                        *)
(***************************************************************************)
EXTENDS Integers, Sequences, FiniteSets, TLC

VARIABLES
    call,           \* the method the caller invoked
    pc,             \* the statement the run is at
    now,            \* the wall clock, in ticks
    n_customers,    \* argument n of generate_customers
    n_products,     \* argument n of generate_products
    n_orders,       \* argument n_orders of generate_orders
    customers,      \* the rows of customers_df
    products,       \* the rows of products_df
    orders,         \* the list orders of generate_orders
    order_items,    \* the list order_items of generate_orders
    order_item_id,  \* the counter order_item_id of generate_orders
    files,          \* the output files written so far
    error,          \* the exception that ended the run, or "none"
    run,            \* 0: a single run; 1, 2: first and second process of a pair
    tape,           \* the seeded draws of the first process, in order
    tpos,           \* how many of them the second process has repeated
    first           \* what the first process returned

vars == <<call, pc, now, n_customers, n_products, n_orders, customers, products,
          orders, order_items, order_item_id, files, error, run, tape, tpos, first>>

(***************************************************************************)
(* Bounds of the model.                                                    *)
(***************************************************************************)
MaxCustomers == 1
MaxProducts == 1
MaxOrders == 1
PriceSpread == 2
DateSpread == 1
TicksPerDay == 2
StartDay == 731
MaxTicks == 1
Streams == 2
MaxPairCustomers == 2
MaxCount == 2

(***************************************************************************)
(* Constants of the program.                                               *)
(***************************************************************************)
EpochDay == 0
MonthDays == 30
YearDays == 365
TaxRate == 8
FreeShippingThreshold == 5000

Categories ==
    << [id |-> 1, name |-> "Electronics",    margin |-> 15],
       [id |-> 2, name |-> "Clothing",       margin |-> 40],
       [id |-> 3, name |-> "Home & Garden",  margin |-> 35],
       [id |-> 4, name |-> "Sports",         margin |-> 30],
       [id |-> 5, name |-> "Books",          margin |-> 25],
       [id |-> 6, name |-> "Toys",           margin |-> 45],
       [id |-> 7, name |-> "Beauty",         margin |-> 50],
       [id |-> 8, name |-> "Food & Grocery", margin |-> 20] >>

Segments == <<"premium", "regular", "occasional", "new">>

ShippingOptions == <<0, 599, 999, 1499>>

DiscountRates == <<10, 15, 20>>

OutputFiles == {"customers.csv", "products.csv", "categories.csv",
                "orders.csv", "order_items.csv"}

(***************************************************************************)
(* Helpers.                                                                *)
(***************************************************************************)
Max(a, b) == IF a >= b THEN a ELSE b

Min(a, b) == IF a <= b THEN a ELSE b

Range(s) == {s[i] : i \in DOMAIN s}

RECURSIVE SumSeq(_)
SumSeq(s) == IF s = <<>> THEN 0 ELSE s[1] + SumSeq(Tail(s))

\* The values the model draws from the interval lo..hi: the spread lowest and
\* the spread highest.
Pick(lo, hi, spread) ==
    {x \in {lo + i : i \in 0..(spread - 1)} \cup {hi - i : i \in 0..(spread - 1)} :
        lo <= x /\ x <= hi}

\* date -> timestamp of its midnight, timestamp -> date.
Midnight(d) == d * TicksPerDay

DateOf(t) == t \div TicksPerDay

\* n/d is exactly halfway between two whole cents.
IsTie(n, d) == 2 * (n % d) = d

\* round(x, 2) of the amount n/d cents, n >= 0.  Halfway, the result follows
\* the binary value of the float, which lies above or below the tie: up.
Round2(n, d, up) ==
    LET q == n \div d
        r == n % d
    IN  IF 2 * r > d \/ (2 * r = d /\ up) THEN q + 1 ELSE q

\* The two sides a halfway value can fall to; FALSE alone when n/d is no tie.
Sides(n, d) == IF IsTie(n, d) THEN BOOLEAN ELSE {FALSE}

(***************************************************************************)
(* The seeded generators.  A single run may draw any value.  In the second *)
(* process of a pair a seeded draw repeats the draw the first process made *)
(* at the same place of the stream, when that draw is one this call can    *)
(* return; the first process of a pair is followed for Streams outcomes of *)
(* each draw.                                                              *)
(***************************************************************************)
RECURSIVE Some(_, _)
Some(S, n) ==
    IF n = 0 \/ S = {} THEN {}
    ELSE LET x == CHOOSE y \in S : TRUE
         IN  {x} \cup Some(S \ {x}, n - 1)

Seeded(S, k) ==
    IF run = 0 THEN S
    ELSE IF run = 2 /\ tpos + k <= Len(tape) /\ tape[tpos + k] \in S
    THEN {tape[tpos + k]}
    ELSE Some(S, Streams)

\* The draws ds, in order, have been taken from the seeded generators.
Drawn(ds) ==
    /\ tape' = IF run = 1 THEN tape \o ds ELSE tape
    /\ tpos' = IF run = 2 THEN tpos + Len(ds) ELSE tpos

(***************************************************************************)
(* generate_customers                                                      *)
(***************************************************************************)
\* fake.date_between(start_date, end_date) of lines 112-117, as the pair
\* <<first day, last day>>.
RegistrationRange(segment, today) ==
    IF segment = "new" THEN <<today - 3 * MonthDays, today>>
    ELSE IF segment = "premium" THEN <<today - 3 * YearDays, today - YearDays>>
    ELSE <<today - 2 * YearDays, today - MonthDays>>

\* What one iteration of the loop draws: the segment, the day within the
\* segment's range, is_active.
CustomerDraws(today) ==
    UNION { { [segment |-> s, reg_off |-> o, is_active |-> a] :
                o \in Pick(0, RegistrationRange(s, today)[2]
                              - RegistrationRange(s, today)[1], DateSpread),
                a \in BOOLEAN } : s \in Range(Segments) }

NewCustomer(i, d, t) ==
    LET reg_date == RegistrationRange(d.segment, DateOf(t))[1] + d.reg_off
    IN  [customer_id |-> i,
         segment |-> d.segment,
         registration_date |-> reg_date,
         is_active |-> d.is_active,
         created_at |-> Midnight(reg_date),
         updated_at |-> t]

(***************************************************************************)
(* generate_products                                                       *)
(***************************************************************************)
PriceRange(category_name) ==
    IF category_name = "Electronics" THEN <<5000, 150000>>
    ELSE IF category_name = "Books" THEN <<1000, 5000>>
    ELSE <<1500, 20000>>

\* The cost cut off after the cents instead of rounded.
CostTruncated(price, margin, up) == (price * (100 - margin)) \div 100

\* cost = round(price * (1 - margin), 2)
CostOf(price, margin, up) == Round2(price * (100 - margin), 100, up)

\* What one iteration draws: the category, the price, is_active; up is the
\* side the cost falls to when price * (1 - margin) is halfway.
ProductDraws ==
    UNION { { [category |-> c, price |-> p, is_active |-> a, up |-> u] :
                p \in Pick(PriceRange(Categories[c].name)[1],
                           PriceRange(Categories[c].name)[2], PriceSpread),
                a \in BOOLEAN,
                u \in BOOLEAN } : c \in DOMAIN Categories }

ProductDrawsOk ==
    {d \in ProductDraws : d.up \in Sides(d.price * (100 - Categories[d.category].margin), 100)}

NewProduct(i, d, t) ==
    LET category == Categories[d.category]
    IN  [product_id |-> i,
         category_id |-> category.id,
         category_name |-> category.name,
         price |-> d.price,
         cost |-> CostOf(d.price, category.margin, d.up),
         is_active |-> d.is_active,
         updated_at |-> t]

(***************************************************************************)
(* generate_orders                                                         *)
(***************************************************************************)
SegmentWeight(segment) ==
    CASE segment = "premium" -> 4
      [] segment = "regular" -> 2
      [] segment = "occasional" -> 1
      [] segment = "new" -> 1

\* customers_df.sample(weights=...): numpy draws one row among those of
\* positive weight.
WeightedSample(rows) ==
    {i \in DOMAIN rows : SegmentWeight(rows[i].segment) > 0}

\* The filter on is_active left out.
AllProducts(rows) == rows

\* products_df[products_df["is_active"] == True]
ActiveProducts(rows) == SelectSeq(rows, LAMBDA p : p.is_active = TRUE)

\* random.randint(2, 6) for a premium customer, random.randint(1, 4) otherwise.
ItemCountRange(segment) == IF segment = "premium" THEN 2..6 ELSE 1..4

\* The rows drawn with replacement.
SampleWithReplacement(rows, m) == [1..m -> DOMAIN rows]

\* active_products.sample(n=m): numpy draws m rows without replacement; the
\* result lists them in the order drawn.
SampleRows(rows, m) ==
    {s \in [1..m -> DOMAIN rows] : \A i, j \in 1..m : i # j => s[i] # s[j]}

\* The epoch alone, whatever the customer's registration date.
EpochOnly(customer) == EpochDay

\* min_date = max(customer["registration_date"], datetime(2023, 1, 1).date())
MinDate(customer) == Max(customer.registration_date, EpochDay)

\* fake.date_time_between(start_date=min_date, end_date="now"): a timestamp
\* from the midnight of min_date to now, as <<first, last>>.
OrderDateRange(min_date, t) == <<Midnight(min_date), t>>

\* The draws of an iteration before the products are sampled: the order date
\* within its range and n_items.
OrderDraws(customer, t) ==
    LET range == OrderDateRange(MinDate(customer), t)
    IN  { [date_off |-> o, n_items |-> k] :
            o \in Pick(0, range[2] - range[1], DateSpread),
            k \in ItemCountRange(customer.segment) }

\* discount = 0, or round(unit_price * rate, 2) when random.random() < 0.2;
\* rate 0 stands for no discount.
DiscountOf(unit_price, rate, up) ==
    IF rate = 0 THEN 0 ELSE Round2(unit_price * rate, 100, up)

\* The discount left out of the line total.
LineTotalBeforeDiscount(unit_price, discount, quantity) ==
    Round2(unit_price * quantity, 1, FALSE)

\* line_total = round((unit_price - discount) * quantity, 2)
LineTotal(unit_price, discount, quantity) ==
    Round2((unit_price - discount) * quantity, 1, FALSE)

\* The draws of the item loop, one per sampled product: quantity, the rate of
\* the discount, and the side a halfway discount falls to.
ItemDraws(rows) ==
    {ds \in [DOMAIN rows -> [quantity : 1..3,
                             rate : {0} \cup Range(DiscountRates),
                             up : BOOLEAN]] :
        \A i \in DOMAIN rows : ds[i].up \in Sides(rows[i].price * ds[i].rate, 100)}

NewOrderItem(item_id, order_id, product, d) ==
    LET unit_price == product.price
        discount == DiscountOf(unit_price, d.rate, d.up)
    IN  [order_item_id |-> item_id,
         order_id |-> order_id,
         product_id |-> product.product_id,
         quantity |-> d.quantity,
         unit_price |-> unit_price,
         discount |-> discount,
         line_total |-> LineTotal(unit_price, discount, d.quantity)]

\* The two ids of an item taken for each other.
OrderItemsSwapped(order_id, first_id, rows, ds) ==
    [i \in DOMAIN rows |-> NewOrderItem(order_id, first_id + i - 1, rows[i], ds[i])]

\* The item ids counted from 1 again in every order.
OrderItemsFromOne(order_id, first_id, rows, ds) ==
    [i \in DOMAIN rows |-> NewOrderItem(i, order_id, rows[i], ds[i])]

\* The rows the item loop appends for one order, item ids from first_id on.
OrderItemsOf(order_id, first_id, rows, ds) ==
    [i \in DOMAIN rows |-> NewOrderItem(first_id + i - 1, order_id, rows[i], ds[i])]

\* Sequences of line totals, each a whole number of cents and adding up to
\* 50.00, whose sum in binary floating point, accumulated left to right from
\* 0 as line 258 does, is 49.99999999999999.  (No sum of one or two such
\* amounts falls short.)
ShortOfThreshold ==
    { <<1000, 2413, 1587>>, <<2413, 1000, 1587>> }

\* subtotal as the loop leaves it: a float, kept as its amount in cents and
\* whether the float lies below that amount.
Accumulate(line_totals) ==
    [cents |-> SumSeq(line_totals),
     short |-> line_totals \in ShortOfThreshold]

\* subtotal < 50
BelowThreshold(subtotal) ==
    \/ subtotal.cents < FreeShippingThreshold
    \/ subtotal.cents = FreeShippingThreshold /\ subtotal.short

\* random.choice([0, 5.99, 9.99, 14.99]) is drawn only if subtotal < 50;
\* 0 stands for no draw.
ShippingDraws(subtotal) ==
    IF BelowThreshold(subtotal) THEN DOMAIN ShippingOptions ELSE {0}

ShippingOf(s) == IF s = 0 THEN 0 ELSE ShippingOptions[s]

SubtotalOf(rows, ds) ==
    Accumulate([i \in DOMAIN rows |->
        LineTotal(rows[i].price, DiscountOf(rows[i].price, ds[i].rate, ds[i].up),
                  ds[i].quantity)])

\* The draws of an iteration after the products are sampled.
LineDraws(rows) ==
    UNION { { [items |-> ds, ship |-> s] : s \in ShippingDraws(SubtotalOf(rows, ds)) } :
            ds \in ItemDraws(rows) }

\* tax = round(subtotal * 0.08, 2)
TaxOf(subtotal) == Round2(subtotal.cents * TaxRate, 100, FALSE)

NewOrder(order_id, customer, order_date, subtotal, shipping) ==
    LET tax == TaxOf(subtotal)
    IN  [order_id |-> order_id,
         customer_id |-> customer.customer_id,
         order_date |-> order_date,
         subtotal |-> Round2(subtotal.cents, 1, FALSE),
         shipping |-> shipping,
         tax |-> tax,
         total |-> Round2(subtotal.cents + shipping + tax, 1, FALSE),
         created_at |-> order_date]

(***************************************************************************)
(* The steps of a run.                                                     *)
(***************************************************************************)
StartTick == Midnight(StartDay) + 1

Running == pc \notin {"done", "failed"}

\* Time passes while the program runs.
Tick ==
    /\ Running
    /\ now < StartTick + MaxTicks
    /\ now' = now + 1
    /\ UNCHANGED <<call, pc, n_customers, n_products, n_orders, customers, products,
                   orders, order_items, order_item_id, files, error, run, tape, tpos,
                   first>>

\* generate_all, line 316
MakeDirs ==
    /\ pc = "makedirs"
    /\ pc' = "customers"
    /\ UNCHANGED <<call, now, n_customers, n_products, n_orders, customers, products,
                   orders, order_items, order_item_id, files, error, run, tape, tpos,
                   first>>

\* generate_customers, one iteration of the loop of lines 108-136
GenerateCustomer ==
    /\ pc = "customers"
    /\ Len(customers) < n_customers
    /\ \E d \in Seeded(CustomerDraws(DateOf(now)), 1) :
        /\ customers' = Append(customers, NewCustomer(Len(customers) + 1, d, now))
        /\ Drawn(<<d>>)
    /\ UNCHANGED <<call, pc, now, n_customers, n_products, n_orders, products,
                   orders, order_items, order_item_id, files, error, run, first>>

\* generate_customers, the loop is over (at once when n <= 0): line 138
ReturnCustomers ==
    /\ pc = "customers"
    /\ Len(customers) >= n_customers
    /\ pc' = IF call = "generate_all" THEN "write_customers" ELSE "done"
    /\ UNCHANGED <<call, now, n_customers, n_products, n_orders, customers, products,
                   orders, order_items, order_item_id, files, error, run, tape, tpos,
                   first>>

\* customers.csv written and generate_orders called next, generate_products
\* left out.
WriteCustomersThenOrders ==
    /\ pc = "write_customers"
    /\ files' = files \cup {"customers.csv"}
    /\ pc' = "generate_orders"
    /\ UNCHANGED <<call, now, n_customers, n_products, n_orders, customers, products,
                   orders, order_items, order_item_id, error, run, tape, tpos, first>>

\* generate_all, line 320
WriteCustomers ==
    /\ pc = "write_customers"
    /\ files' = files \cup {"customers.csv"}
    /\ pc' = "products"
    /\ UNCHANGED <<call, now, n_customers, n_products, n_orders, customers, products,
                   orders, order_items, order_item_id, error, run, tape, tpos, first>>

\* generate_products, one iteration of the loop of lines 159-189
GenerateProduct ==
    /\ pc = "products"
    /\ Len(products) < n_products
    /\ \E d \in Seeded(ProductDrawsOk, 1) :
        /\ products' = Append(products, NewProduct(Len(products) + 1, d, now))
        /\ Drawn(<<d>>)
    /\ UNCHANGED <<call, pc, now, n_customers, n_products, n_orders, customers,
                   orders, order_items, order_item_id, files, error, run, first>>

\* generate_products, the loop is over (at once when n <= 0): line 191
ReturnProducts ==
    /\ pc = "products"
    /\ Len(products) >= n_products
    /\ pc' = IF call = "generate_all" THEN "write_products" ELSE "done"
    /\ UNCHANGED <<call, now, n_customers, n_products, n_orders, customers, products,
                   orders, order_items, order_item_id, files, error, run, tape, tpos,
                   first>>

\* generate_all, line 325
WriteProducts ==
    /\ pc = "write_products"
    /\ files' = files \cup {"products.csv"}
    /\ pc' = "write_categories"
    /\ UNCHANGED <<call, now, n_customers, n_products, n_orders, customers, products,
                   orders, order_items, order_item_id, error, run, tape, tpos, first>>

\* generate_all, lines 329-330
WriteCategories ==
    /\ pc = "write_categories"
    /\ files' = files \cup {"categories.csv"}
    /\ pc' = "generate_orders"
    /\ UNCHANGED <<call, now, n_customers, n_products, n_orders, customers, products,
                   orders, order_items, order_item_id, error, run, tape, tpos, first>>

\* generate_orders, lines 213-218: products_df has its columns
OrdersStart ==
    /\ pc = "generate_orders"
    /\ products # <<>>
    /\ orders' = <<>>
    /\ order_items' = <<>>
    /\ order_item_id' = 1
    /\ pc' = "orders"
    /\ UNCHANGED <<call, now, n_customers, n_products, n_orders, customers, products,
                   files, error, run, tape, tpos, first>>

\* generate_orders, line 218: a DataFrame made of no rows has no columns, and
\* products_df["is_active"] raises KeyError
OrdersNoColumns ==
    /\ pc = "generate_orders"
    /\ products = <<>>
    /\ orders' = <<>>
    /\ order_items' = <<>>
    /\ order_item_id' = 1
    /\ error' = "KeyError"
    /\ pc' = "failed"
    /\ UNCHANGED <<call, now, n_customers, n_products, n_orders, customers, products,
                   files, run, tape, tpos, first>>

\* generate_orders, line 223: customers_df["segment"] of a DataFrame made of
\* no rows raises KeyError
SampleNoCustomers ==
    /\ pc = "orders"
    /\ Len(orders) < n_orders
    /\ customers = <<>>
    /\ error' = "KeyError"
    /\ pc' = "failed"
    /\ UNCHANGED <<call, now, n_customers, n_products, n_orders, customers, products,
                   orders, order_items, order_item_id, files, run, tape, tpos, first>>

\* generate_orders, one iteration of the loop of lines 220-295
GenerateOrder ==
    /\ pc = "orders"
    /\ Len(orders) < n_orders
    /\ customers # <<>>
    /\ LET order_id == Len(orders) + 1
           active_products == ActiveProducts(products)
       IN  \E c \in WeightedSample(customers) :
           \E a \in Seeded(OrderDraws(customers[c], now), 1) :
           \E picked \in SampleRows(active_products,
                                    Min(a.n_items, Len(active_products))) :
           LET customer == customers[c]
               order_date == OrderDateRange(MinDate(customer), now)[1] + a.date_off
               order_products == [i \in DOMAIN picked |-> active_products[picked[i]]]
           IN  \E b \in Seeded(LineDraws(order_products), 2) :
               LET subtotal == SubtotalOf(order_products, b.items)
               IN  /\ order_items' = order_items \o
                          OrderItemsOf(order_id, order_item_id, order_products, b.items)
                   /\ order_item_id' = order_item_id + Len(order_products)
                   /\ orders' = Append(orders,
                          NewOrder(order_id, customer, order_date, subtotal,
                                   ShippingOf(b.ship)))
                   /\ Drawn(<<a, b>>)
    /\ UNCHANGED <<call, pc, now, n_customers, n_products, n_orders, customers,
                   products, files, error, run, first>>

\* generate_orders, the loop is over (at once when n_orders <= 0): line 297
ReturnOrders ==
    /\ pc = "orders"
    /\ Len(orders) >= n_orders
    /\ pc' = IF call = "generate_all" THEN "write_orders" ELSE "done"
    /\ UNCHANGED <<call, now, n_customers, n_products, n_orders, customers, products,
                   orders, order_items, order_item_id, files, error, run, tape, tpos,
                   first>>

\* generate_all, line 335
WriteOrders ==
    /\ pc = "write_orders"
    /\ files' = files \cup {"orders.csv"}
    /\ pc' = "write_order_items"
    /\ UNCHANGED <<call, now, n_customers, n_products, n_orders, customers, products,
                   orders, order_items, order_item_id, error, run, tape, tpos, first>>

\* generate_all, lines 336-349
WriteOrderItems ==
    /\ pc = "write_order_items"
    /\ files' = files \cup {"order_items.csv"}
    /\ pc' = "done"
    /\ UNCHANGED <<call, now, n_customers, n_products, n_orders, customers, products,
                   orders, order_items, order_item_id, error, run, tape, tpos, first>>

\* What a run hands back: the collections, and the exception if it raised.
Returned ==
    [customers |-> customers, products |-> products, orders |-> orders,
     order_items |-> order_items, error |-> error]

Nothing ==
    [customers |-> <<>>, products |-> <<>>, orders |-> <<>>,
     order_items |-> <<>>, error |-> "none"]

\* A second process is started with the same arguments: the module is
\* imported again, lines 29-31 seed random and Faker with 42 again.
SecondRun ==
    /\ run = 1
    /\ ~Running
    /\ first' = Returned
    /\ run' = 2
    /\ tpos' = 0
    /\ pc' = "makedirs"
    /\ customers' = <<>>
    /\ products' = <<>>
    /\ orders' = <<>>
    /\ order_items' = <<>>
    /\ order_item_id' = 0
    /\ error' = "none"
    /\ now' \in now..(now + MaxTicks)
    /\ UNCHANGED <<call, n_customers, n_products, n_orders, files, tape>>

(***************************************************************************)
(* generate_all(n_customers, n_products, n_orders), once.                   *)
(***************************************************************************)
InitRun(r, most) ==
    /\ call = "generate_all"
    /\ pc = "makedirs"
    /\ now = StartTick
    /\ n_customers \in -1..most
    /\ n_products \in -1..MaxProducts
    /\ n_orders \in -1..MaxOrders
    /\ customers = <<>>
    /\ products = <<>>
    /\ orders = <<>>
    /\ order_items = <<>>
    /\ order_item_id = 0
    /\ files = {}
    /\ error = "none"
    /\ run = r
    /\ tape = <<>>
    /\ tpos = 0
    /\ first = Nothing

Init == InitRun(0, MaxCustomers)

Next ==
    \/ Tick
    \/ MakeDirs
    \/ GenerateCustomer
    \/ ReturnCustomers
    \/ WriteCustomers
    \/ GenerateProduct
    \/ ReturnProducts
    \/ WriteProducts
    \/ WriteCategories
    \/ OrdersStart
    \/ OrdersNoColumns
    \/ SampleNoCustomers
    \/ GenerateOrder
    \/ ReturnOrders
    \/ WriteOrders
    \/ WriteOrderItems

Spec == Init /\ [][Next]_vars

(***************************************************************************)
(* generate_all in two processes, one after the other, same seed and same  *)
(* arguments.                                                              *)
(***************************************************************************)
InitPair == InitRun(1, MaxPairCustomers)

\* The clock is read as standing still within a process and as moving
\* between the two.
NextPair ==
    \/ MakeDirs
    \/ GenerateCustomer
    \/ ReturnCustomers
    \/ WriteCustomers
    \/ GenerateProduct
    \/ ReturnProducts
    \/ WriteProducts
    \/ WriteCategories
    \/ OrdersStart
    \/ OrdersNoColumns
    \/ SampleNoCustomers
    \/ GenerateOrder
    \/ ReturnOrders
    \/ WriteOrders
    \/ WriteOrderItems
    \/ SecondRun

SpecPair == InitPair /\ [][NextPair]_vars

(***************************************************************************)
(* generate_customers(n) and generate_products(n), called on their own.    *)
(***************************************************************************)
InitGenerate ==
    /\ call \in {"generate_customers", "generate_products"}
    /\ pc = IF call = "generate_customers" THEN "customers" ELSE "products"
    /\ now = StartTick
    /\ n_customers \in IF call = "generate_customers" THEN -1..MaxCount ELSE {0}
    /\ n_products \in IF call = "generate_products" THEN -1..MaxCount ELSE {0}
    /\ n_orders = 0
    /\ customers = <<>>
    /\ products = <<>>
    /\ orders = <<>>
    /\ order_items = <<>>
    /\ order_item_id = 0
    /\ files = {}
    /\ error = "none"
    /\ run = 0
    /\ tape = <<>>
    /\ tpos = 0
    /\ first = Nothing

NextGenerate ==
    \/ Tick
    \/ GenerateCustomer
    \/ ReturnCustomers
    \/ GenerateProduct
    \/ ReturnProducts

SpecGenerate == InitGenerate /\ [][NextGenerate]_vars

(***************************************************************************)
(* generate_orders(customers_df, products_df, n_orders), called on its own *)
(* with collections that generate_customers and generate_products return.  *)
(***************************************************************************)
Premium == [segment |-> "premium", reg_off |-> 0, is_active |-> TRUE]

Newcomer == [segment |-> "new", reg_off |-> 3 * MonthDays, is_active |-> TRUE]

Regular == [segment |-> "regular", reg_off |-> 0, is_active |-> FALSE]

CustomerRows(ds) == [i \in DOMAIN ds |-> NewCustomer(i, ds[i], StartTick)]

CustomerInputs ==
    LET Rows(ds) == CustomerRows(ds)
    IN  {Rows(ds) : ds \in {<<>>, <<Premium>>, <<Newcomer>>,
                            <<Newcomer, Premium>>, <<Regular, Newcomer>>}}

Item(category, price, is_active) ==
    [category |-> category, price |-> price, is_active |-> is_active, up |-> FALSE]

\* Product collections, each with the largest n_orders tried on it.
ProductRows(ds) == [i \in DOMAIN ds |-> NewProduct(i, ds[i], StartTick)]

ProductInputs ==
    LET Rows(ds) == ProductRows(ds)
    IN  { [rows |-> Rows(<<>>), most |-> 1],
          [rows |-> Rows(<<Item(2, 2000, FALSE)>>), most |-> 2],
          [rows |-> Rows(<<Item(2, 2000, TRUE), Item(2, 2000, FALSE)>>), most |-> 2],
          [rows |-> Rows(<<Item(2, 2500, TRUE), Item(5, 2510, TRUE)>>), most |-> 1] }

InitOrders ==
    /\ call = "generate_orders"
    /\ pc = "generate_orders"
    /\ now = StartTick
    /\ customers \in CustomerInputs
    /\ \E p \in ProductInputs :
        /\ products = p.rows
        /\ n_orders \in -1..p.most
    /\ n_customers = Len(customers)
    /\ n_products = Len(products)
    /\ orders = <<>>
    /\ order_items = <<>>
    /\ order_item_id = 0
    /\ files = {}
    /\ error = "none"
    /\ run = 0
    /\ tape = <<>>
    /\ tpos = 0
    /\ first = Nothing

NextOrders ==
    \/ Tick
    \/ OrdersStart
    \/ OrdersNoColumns
    \/ SampleNoCustomers
    \/ GenerateOrder
    \/ ReturnOrders

SpecOrders == InitOrders /\ [][NextOrders]_vars

(***************************************************************************)
(* generate_orders(customers_df, products_df, 1) on three active products  *)
(* priced 10.00, 24.13 and 15.87, which add up to the free-shipping        *)
(* threshold.                                                              *)
(***************************************************************************)
InitBoundary ==
    /\ call = "generate_orders"
    /\ pc = "generate_orders"
    /\ now = StartTick
    /\ customers = CustomerRows(<<Newcomer>>)
    /\ products = ProductRows(<<Item(5, 1000, TRUE), Item(2, 2413, TRUE),
                                Item(2, 1587, TRUE)>>)
    /\ n_orders = 1
    /\ n_customers = Len(customers)
    /\ n_products = Len(products)
    /\ orders = <<>>
    /\ order_items = <<>>
    /\ order_item_id = 0
    /\ files = {}
    /\ error = "none"
    /\ run = 0
    /\ tape = <<>>
    /\ tpos = 0
    /\ first = Nothing

NextBoundary ==
    \/ Tick
    \/ OrdersStart
    \/ GenerateOrder
    \/ ReturnOrders

SpecBoundary == InitBoundary /\ [][NextBoundary]_vars

(***************************************************************************)
(* Properties of generate_orders.                                          *)
(***************************************************************************)
\* C1: every order item carries the product_id of a product of the input
\* collection whose is_active is true, and of no product whose is_active is
\* false.
ItemsReferenceActiveProducts ==
    \A i \in DOMAIN order_items :
        /\ \E p \in DOMAIN products :
              /\ products[p].product_id = order_items[i].product_id
              /\ products[p].is_active = TRUE
        /\ \A p \in DOMAIN products :
              products[p].product_id = order_items[i].product_id
                  => products[p].is_active = TRUE

\* generate_orders has returned order items made from a collection that also
\* holds an inactive product.
ItemsMadeBesideInactiveProduct ==
    /\ call = "generate_orders"
    /\ pc = "done"
    /\ order_items # <<>>
    /\ \E p \in DOMAIN products : products[p].is_active = FALSE

\* C2: generate_orders called with n_orders >= 1 and a product collection
\* in which no product is active ends with an error (any exception is taken
\* for the InputError), and returns no order without line items.
NoActiveProductsIsError ==
    ( /\ call = "generate_orders"
      /\ ~Running
      /\ n_orders >= 1
      /\ \A p \in DOMAIN products : products[p].is_active = FALSE )
    => /\ error # "none"
       /\ \A o \in DOMAIN orders :
              \E i \in DOMAIN order_items :
                  order_items[i].order_id = orders[o].order_id

\* C3: when generate_all has run to its end in two processes with the same
\* seed and the same counts, the second returns the collections the first
\* returned.
SameSeedSameOutput ==
    (run = 2 /\ pc = "done" /\ first.error = "none") => Returned = first

\* C4: a run of generate_all that has failed has written no output file.
NoPartialOutput ==
    (call = "generate_all" /\ pc = "failed") => files = {}

\* C5: for every order, with the recorded values: total is subtotal +
\* shipping + tax rounded to cents, tax is 8% of subtotal rounded to cents,
\* shipping is one of 0, 5.99, 9.99, 14.99, and shipping is 0 whenever
\* subtotal >= 50.00.
OrderArithmetic ==
    \A o \in DOMAIN orders :
        /\ orders[o].total = orders[o].subtotal + orders[o].shipping + orders[o].tax
        /\ orders[o].tax \in {Round2(orders[o].subtotal * 8, 100, u) : u \in BOOLEAN}
        /\ orders[o].shipping \in {0, 599, 999, 1499}
        /\ orders[o].subtotal >= 5000 => orders[o].shipping = 0

\* C6: the order_date of every order is not before the midnight that starts
\* the registration_date of the customer the order references, and not
\* before the midnight that starts 2023-01-01.
OrderDateNotBeforeRegistration ==
    \A o \in DOMAIN orders :
        /\ orders[o].order_date >= 0 * TicksPerDay
        /\ \A c \in DOMAIN customers :
              customers[c].customer_id = orders[o].customer_id
                  => orders[o].order_date >= customers[c].registration_date * TicksPerDay

\* generate_orders has returned an order, dated the generation day, of a
\* customer registered that day, and an order, dated 2023-01-01, of a customer
\* registered before 2023-01-01.
OrdersAtEarliestDate ==
    /\ call = "generate_orders"
    /\ pc = "done"
    /\ \E o \in DOMAIN orders, c \in DOMAIN customers :
          /\ customers[c].customer_id = orders[o].customer_id
          /\ customers[c].registration_date = now \div TicksPerDay
          /\ orders[o].order_date = customers[c].registration_date * TicksPerDay
    /\ \E o \in DOMAIN orders, c \in DOMAIN customers :
          /\ customers[c].customer_id = orders[o].customer_id
          /\ customers[c].registration_date < 0
          /\ orders[o].order_date = 0

\* C7: the order_id of every order item is the order_id of exactly one
\* order, and the customer_id of every order is the customer_id of exactly
\* one customer of the input collection.
ReferencesResolve ==
    /\ \A i \in DOMAIN order_items :
          Cardinality({o \in DOMAIN orders :
                          orders[o].order_id = order_items[i].order_id}) = 1
    /\ \A o \in DOMAIN orders :
          Cardinality({c \in DOMAIN customers :
                          customers[c].customer_id = orders[o].customer_id}) = 1

\* generate_orders has returned two orders of two different customers, each
\* with a line item.
TwoOrdersTwoCustomers ==
    /\ call = "generate_orders"
    /\ pc = "done"
    /\ \E o1, o2 \in DOMAIN orders : orders[o1].customer_id # orders[o2].customer_id
    /\ \E i, j \in DOMAIN order_items :
          order_items[i].order_id # order_items[j].order_id

\* C8: the number of line items of every order is min(k, number of active
\* products) for a k the customer's segment allows (2..6 for premium, 1..4
\* otherwise), and no product_id occurs twice among them.
ItemCountAndDistinctProducts ==
    \A o \in DOMAIN orders :
        LET items == {i \in DOMAIN order_items :
                         order_items[i].order_id = orders[o].order_id}
            active == Cardinality({p \in DOMAIN products : products[p].is_active = TRUE})
        IN  /\ \A c \in DOMAIN customers :
                  customers[c].customer_id = orders[o].customer_id
                      => \E k \in IF customers[c].segment = "premium" THEN 2..6 ELSE 1..4 :
                            Cardinality(items) = IF k <= active THEN k ELSE active
            /\ \A i, j \in items :
                  i # j => order_items[i].product_id # order_items[j].product_id

\* generate_orders has returned an order of a premium customer, who asks for
\* 2 to 6 items, made from two active products: it has two line items.
PremiumOrderOfAllActiveProducts ==
    /\ call = "generate_orders"
    /\ pc = "done"
    /\ Cardinality({p \in DOMAIN products : products[p].is_active = TRUE}) = 2
    /\ \E o \in DOMAIN orders, c \in DOMAIN customers :
          /\ customers[c].customer_id = orders[o].customer_id
          /\ customers[c].segment = "premium"
          /\ Cardinality({i \in DOMAIN order_items :
                             order_items[i].order_id = orders[o].order_id}) = 2

\* C12: the recorded subtotal of every order is the sum, rounded to cents,
\* of the line_total of exactly the order items that carry its order_id;
\* for each item quantity is in 1..3, unit_price is the price of the product
\* it references, discount is 0 or unit_price * r rounded to cents for r
\* among 10%, 15%, 20%, and line_total is (unit_price - discount) * quantity
\* rounded to cents.
SubtotalIsSumOfLineTotals ==
    /\ \A o \in DOMAIN orders :
          LET own == SelectSeq(order_items,
                         LAMBDA item : item.order_id = orders[o].order_id)
          IN  orders[o].subtotal = SumSeq([i \in DOMAIN own |-> own[i].line_total])
    /\ \A i \in DOMAIN order_items :
          LET item == order_items[i]
          IN  /\ item.quantity \in 1..3
              /\ \E p \in DOMAIN products :
                    /\ products[p].product_id = item.product_id
                    /\ products[p].price = item.unit_price
              /\ \/ item.discount = 0
                 \/ \E r \in {10, 15, 20} :
                       item.discount \in {Round2(item.unit_price * r, 100, u) :
                                             u \in Sides(item.unit_price * r, 100)}
              /\ item.line_total = (item.unit_price - item.discount) * item.quantity

\* generate_orders has returned an order with two line items, one of
\* quantity 3 with a discount that lay halfway between two cents, the other
\* without discount.
OrderWithDiscountedItem ==
    /\ call = "generate_orders"
    /\ pc = "done"
    /\ \E i, j \in DOMAIN order_items :
          /\ i # j
          /\ order_items[i].order_id = order_items[j].order_id
          /\ order_items[i].quantity = 3
          /\ order_items[i].discount > 0
          /\ (order_items[i].discount * 100) % order_items[i].unit_price # 0
          /\ order_items[j].discount = 0

\* C13: the order_id values are 1, 2, ... in generation order, exactly
\* 1..n_orders once the call has returned; the order_item_id values are
\* 1, 2, ... in generation order over all orders, without gap or repeat, and
\* every item of an order has a smaller order_item_id than every item of a
\* later order.
IdsAreSequential ==
    /\ \A o \in DOMAIN orders : orders[o].order_id = o
    /\ (call = "generate_orders" /\ pc = "done")
          => {orders[o].order_id : o \in DOMAIN orders} = 1..n_orders
    /\ \A i \in DOMAIN order_items : order_items[i].order_item_id = i
    /\ \A i, j \in DOMAIN order_items :
          order_items[i].order_id < order_items[j].order_id
              => order_items[i].order_item_id < order_items[j].order_item_id

\* generate_orders has returned two orders; the item of the first has
\* order_item_id 1 and the item of the second has order_item_id 2.
SecondOrderContinuesCounter ==
    /\ call = "generate_orders"
    /\ pc = "done"
    /\ n_orders = 2
    /\ Len(orders) = 2
    /\ Len(order_items) = 2
    /\ order_items[1].order_id = 1
    /\ order_items[2].order_id = 2
    /\ order_items[2].order_item_id = 2

(***************************************************************************)
(* Properties of generate_customers and generate_products.                 *)
(***************************************************************************)
\* C9: a call with a negative count ends with an error (any exception is
\* taken for the InputError) and has generated nothing; a call with count zero returns an empty collection
\* without error.
NegativeCountIsError ==
    LET n == IF call = "generate_customers" THEN n_customers ELSE n_products
        out == IF call = "generate_customers" THEN customers ELSE products
    IN  (call \in {"generate_customers", "generate_products"} /\ ~Running)
        => /\ n < 0 => error # "none" /\ out = <<>>
           /\ n = 0 => error = "none" /\ out = <<>>

\* C10: every product names one category of the catalog by id and by name,
\* its price lies in that category's range (Electronics 50-1500, Books 10-50,
\* otherwise 15-200), its cost is price * (1 - margin) rounded to cents, and
\* its cost is below its price.
ProductCostAndPrice ==
    \A i \in DOMAIN products :
        \E c \in DOMAIN Categories :
            LET exact == products[i].price * (100 - Categories[c].margin)
                lo == IF Categories[c].name = "Electronics" THEN 5000
                      ELSE IF Categories[c].name = "Books" THEN 1000 ELSE 1500
                hi == IF Categories[c].name = "Electronics" THEN 150000
                      ELSE IF Categories[c].name = "Books" THEN 5000 ELSE 20000
            IN  /\ Categories[c].id = products[i].category_id
                /\ Categories[c].name = products[i].category_name
                /\ lo <= products[i].price /\ products[i].price <= hi
                /\ products[i].cost \in {Round2(exact, 100, u) : u \in Sides(exact, 100)}
                /\ products[i].cost < products[i].price

\* generate_products has returned two products, one of them with a cost that
\* had to be rounded up and one with a cost halfway between two cents.
ProductsWithRoundedCost ==
    /\ call = "generate_products"
    /\ pc = "done"
    /\ Len(products) >= 2
    /\ \E i \in DOMAIN products :
          /\ (products[i].price * 60) % 100 > 50
          /\ products[i].category_name = "Clothing"
    /\ \E i \in DOMAIN products :
          /\ (products[i].price * 50) % 100 = 50
          /\ products[i].category_name = "Beauty"

(***************************************************************************)
(* Properties of generate_all.                                             *)
(***************************************************************************)
\* C11: generate_all runs product generation, then customer generation,
\* then order generation: once customer generation has started, product
\* generation is complete, and once order generation has started, both
\* customers and products have been generated.
ProductsThenCustomersThenOrders ==
    LET customers_started == \/ pc \in {"customers", "write_customers"}
                             \/ customers # <<>>
                             \/ "customers.csv" \in files
        customers_complete == /\ pc = "write_customers" \/ "customers.csv" \in files
                              /\ Len(customers) >= n_customers
        products_complete == /\ pc = "write_products" \/ "products.csv" \in files
                             /\ Len(products) >= n_products
        orders_started == \/ pc \in {"generate_orders", "orders", "write_orders",
                                     "write_order_items", "failed"}
                          \/ orders # <<>>
    IN  call = "generate_all"
        => /\ customers_started => products_complete
           /\ orders_started => customers_complete /\ products_complete

\* C11, amended: generate_all runs customer generation, then product
\* generation, then the writing of the catalog, then order generation: once
\* product generation has started, customer generation is complete; the
\* catalog is written once product generation is complete; once order
\* generation has started, customers and products have been generated and
\* the catalog has been written.
CustomersThenProductsThenOrders ==
    LET products_started == \/ pc \in {"products", "write_products"}
                            \/ products # <<>>
                            \/ "products.csv" \in files
        customers_complete == /\ pc = "write_customers" \/ "customers.csv" \in files
                              /\ Len(customers) >= n_customers
        products_complete == /\ pc = "write_products" \/ "products.csv" \in files
                             /\ Len(products) >= n_products
        orders_started == \/ pc \in {"generate_orders", "orders", "write_orders",
                                     "write_order_items", "failed"}
                          \/ orders # <<>>
    IN  call = "generate_all"
        => /\ products_started => customers_complete
           /\ "categories.csv" \in files => products_complete
           /\ orders_started => /\ customers_complete
                                /\ products_complete
                                /\ "categories.csv" \in files

\* generate_all has generated a customer, a product and an order.
AllStepsHaveRun ==
    /\ call = "generate_all"
    /\ pc = "done"
    /\ customers # <<>>
    /\ products # <<>>
    /\ orders # <<>>

====
